---- MODULE Spec2Model ----
(***************************************************************************)
(* Mempool x-ray: the snapshot reconciliation of the Cosmos model          *)
(* (chain/cosmos/model.go, CosmosModel.Start) and of the Ethereum model    *)
(* (chain/eth/model.go, EthModel.Update).  A transaction is identified by  *)
(* its hash, a small integer here; its payload is opaque.  The goroutine   *)
(* of CosmosModel.Start, beside its ticker, and a call of EthModel.Update  *)
(* are taken statement by statement in every specification.  Spec          *)
(* is one configured model, PassSpec the Cosmos goroutine alone, StepSpec  *)
(* the goroutine beside the cancellation of its context and the unlocked   *)
(* reads of Displays; AdapterSpec applies the calls of the RPC adapters    *)
(* to what a node can answer; SubSpec is the buffer of the subscription    *)
(* model; MultiSpec runs a Cosmos and an Ethereum model side by side.      *)
(***************************************************************************)
EXTENDS Integers, Sequences, FiniteSets, TLC

\* ------------------------------------------------------------------ bounds
\* Hashes 1..NumKeys are the transactions the node reports during the run.
NumKeys == 2
\* Free slots of the completed list of a model that has run for a while.
FreeSlots == 0
\* Polling ticks of one run.
MaxTicks == 3
\* Block heights an inclusion result can carry: 1..MaxHeight.
MaxHeight == 1

\* --------------------------------------------------------------- constants
\* const maxCompleted = 50
maxCompleted == 50
\* if x < 5 { goto line }
maxAttempts == 5
\* const maxTxsPerBox = 8
maxTxsPerBox == 8

ChainTypeCosmos == "cosmos"
ChainTypeEthereum == "eth"

StatusTypeInMempool == "in-mempool"
StatusTypeSuccess == "success"
StatusTypeFailed == "failed"
StatusTypeEvicted == "evicted"
StatusTypeUnknown == "unknown"

\* types.CodeTypeOK
CodeTypeOK == 0

Keys == 1..NumKeys
\* The length of the completed list of a model that has run for a while.
PreFill == maxCompleted - FreeSlots
Heights == 1..MaxHeight
\* The wall clock when the program starts; the pre-filled entries were
\* resolved before it, one per tick.
StartTime == PreFill + 1
MaxTime == StartTime + MaxTicks

VARIABLES
    ctype,          \* the chain type of the configured data source
    now,            \* the wall clock (time.Now), in ticks
    cTransactions,  \* CosmosModel.transactions: hash -> transaction
    cCompleted,     \* CosmosModel.completed
    eTransactions,  \* EthModel.transactions: pool name -> transactions
    eCompleted,     \* EthModel.completed
    last,           \* what the adapter answered in the latest Cosmos pass
    pc,             \* where the goroutine of CosmosModel.Start stands
    ticker,         \* ticker.C holds a tick
    ctxDone,        \* ctx has been cancelled
    fetched,        \* currentTxs of the pass in progress, as hashes
    departed,       \* removedTransactions of the pass in progress, as hashes
    retries,        \* x: the erroring attempts of the pass in progress
    calls,          \* the status calls of the pass in progress
    seen,           \* what the latest Displays read
    boundary,       \* c.transactions and c.completed when the latest pass ended,
                    \* and the clock when the latest began
    input,          \* the adapter call under study and what the node answers
    output,         \* what the adapter call returned
    subTxs,         \* SubModel.txs
    subReceived,    \* the transactions the subscription has delivered
    subPc,          \* where the goroutine of SubModel.Start stands
    update          \* the call of EthModel.Update in progress, what the adapter
                    \* answered it, and e.transactions and e.completed as the
                    \* latest call left them

vars == <<ctype, now, cTransactions, cCompleted, eTransactions, eCompleted, last,
          pc, ticker, ctxDone, fetched, departed, retries, calls, seen, boundary,
          input, output, subTxs, subReceived, subPc, update>>

\* The variables of the goroutine taken statement by statement.
stepVars == <<pc, ticker, ctxDone, fetched, departed, retries, calls, seen, boundary>>

\* The variables of the adapter calls and of the subscription model.
otherVars == <<input, output, subTxs, subReceived, subPc>>

\* ------------------------------------------------------------ sequences
Range(s) == {s[i] : i \in DOMAIN s}

\* The orders in which a Go map with key set S can be iterated.
OrdersOf(S) ==
    {s \in [1..Cardinality(S) -> S] : \A i, j \in 1..Cardinality(S) : s[i] = s[j] => i = j}

\* s[len(s)-n:]
LastN(s, n) == SubSeq(s, Len(s) - n + 1, Len(s))

SetMin(S) == CHOOSE x \in S : \A y \in S : x <= y

\* The rearrangements of a sequence.
PermSeqs(s) ==
    IF Len(s) <= 1 THEN {s}
    ELSE {[i \in 1..Len(s) |-> s[p[i]]] : p \in OrdersOf(1..Len(s))}

\* slices.SortFunc(s, cmp) for a comparison of the keys K: the sort is not
\* stable, so elements of equal key end in any order.
RECURSIVE SortedBy(_, _, _)
SortedBy(s, K(_), keys) ==
    IF keys = {} THEN {<< >>}
    ELSE LET k == SetMin(keys)
             group == SelectSeq(s, LAMBDA t : K(t) = k)
         IN {head \o tail : head \in PermSeqs(group), tail \in SortedBy(s, K, keys \ {k})}

SortFunc(s, K(_)) == SortedBy(s, K, {K(s[i]) : i \in DOMAIN s})

\* ------------------------------------------------------------ Cosmos model
\* &CosmosTransaction{Hash: hash, Tx: tx, Status: StatusTypeInMempool}; the
\* zero time.Time and the zero height are 0.
NewCosmosTransaction(hash) ==
    [Hash |-> hash, Status |-> StatusTypeInMempool, TimeCompleted |-> 0, HeightCompleted |-> 0]

\* A *TxResult of BatchTxStatus: nil, or a result of a given dynamic type
\* (isExec: the type assertion to types.ExecTxResult succeeds), code, height.
NilResult == [isNil |-> TRUE, isExec |-> FALSE, Code |-> CodeTypeOK, Height |-> 0]
TxResults ==
    {NilResult}
        \cup {[isNil |-> FALSE, isExec |-> TRUE, Code |-> CodeTypeOK, Height |-> h] :
                h \in Heights}
        \cup {[isNil |-> FALSE, isExec |-> TRUE, Code |-> 1, Height |-> MaxHeight],
              [isNil |-> FALSE, isExec |-> FALSE, Code |-> CodeTypeOK, Height |-> MaxHeight]}

\* currentTxMap: one fresh in-mempool transaction per fetched hash.
currentTxMap(currentTxs) == [h \in currentTxs |-> NewCosmosTransaction(h)]

\* currentRemovedTxs: the hashes of the completed list.
currentRemovedTxs(completed) == {completed[i].Hash : i \in DOMAIN completed}

\* The removed hashes without the look at the completed list.
CosmosRemovedHashesAgain(transactions, currentTxs, completed) ==
    {h \in DOMAIN transactions : h \notin currentTxs}

\* The hashes of c.transactions that are no longer in the mempool and not
\* in the completed list.
CosmosRemovedHashes(transactions, currentTxs, completed) ==
    {h \in DOMAIN transactions :
        h \notin currentTxs /\ transactions[h].Hash \notin currentRemovedTxs(completed)}

\* The error branch without the assignment of a status.
CosmosMarkErrorNoStatus(removed) == removed

\* The error branch of the status call: every removed transaction Unknown.
CosmosMarkError(removed) ==
    [i \in 1..Len(removed) |-> [removed[i] EXCEPT !.Status = StatusTypeUnknown]]

\* The classification with a result of another type left unclassified.
CosmosClassifyMismatchUnknown(tx, result) ==
    IF result.isNil \/ ~result.isExec
    THEN [tx EXCEPT !.Status = StatusTypeUnknown]
    ELSE IF result.Code = CodeTypeOK
         THEN [tx EXCEPT !.Status = StatusTypeSuccess, !.HeightCompleted = result.Height]
         ELSE [tx EXCEPT !.Status = StatusTypeFailed]

\* The classification of one result of a successful status call.
CosmosClassify(tx, result) ==
    IF result.isNil
    THEN [tx EXCEPT !.Status = StatusTypeUnknown]
    ELSE IF result.isExec /\ result.Code = CodeTypeOK
         THEN [tx EXCEPT !.Status = StatusTypeSuccess, !.HeightCompleted = result.Height]
         ELSE [tx EXCEPT !.Status = StatusTypeFailed]

\* The else branch that classifies only a transaction no attempt has marked.
CosmosMarkResultsOnlyUnmarked(removed, results) ==
    [i \in 1..Len(removed) |->
        IF i <= Len(results) /\ removed[i].Status = StatusTypeInMempool
        THEN CosmosClassify(removed[i], results[i]) ELSE removed[i]]

\* The else branch: for i, result := range results.
CosmosMarkResults(removed, results) ==
    [i \in 1..Len(removed) |->
        IF i <= Len(results) THEN CosmosClassify(removed[i], results[i]) ELSE removed[i]]

\* The completed list left uncut: it grows with every departure.
CosmosTruncateUncut(completed) == completed

\* if len(c.completed) > maxCompleted { c.completed = c.completed[len-maxCompleted:] }
CosmosTruncate(completed) ==
    IF Len(completed) > maxCompleted THEN LastN(completed, maxCompleted) ELSE completed

\* The latest tick: what the adapter answered (the fetch error, the fetched
\* hashes, the erroring status calls and the results of the successful one)
\* and removedTransactions as the tick appended them.  The Cosmos goroutine
\* writes it as its pass goes: it is whole when the pass has ended.  moved are the hashes
\* the tick found in another pool than the one that held them (no Cosmos
\* transaction has a pool).
Answer(err, currentTxs, resolved, errs, results) ==
    [fetchErr |-> err, snapshot |-> currentTxs, resolved |-> resolved,
     errs |-> errs, results |-> results, moved |-> {}]

\* A write that lands in the history of the Ethereum model as well, as if
\* the two models were built over one list.
CosmosOthersSharedHistory == eTransactions' = eTransactions /\ eCompleted' = cCompleted'

\* What a statement of the Cosmos goroutine does to the other models: the
\* fields it writes are those of its own CosmosModel.
CosmosOthers == UNCHANGED <<eTransactions, eCompleted>>

\* ------------------------------------- the Cosmos goroutine, by statement
\* Displays calls of one run.
MaxReads == 2
\* Ticks the ticker sends in one run.
StepTicks == 2

\* The removed transactions of the pass in progress: the pointers of
\* removedTransactions point into c.transactions.
RemovedObjects == [i \in 1..Len(departed) |-> cTransactions[departed[i]]]

\* c.transactions after writes through removedTransactions[i].
WriteBack(objects) ==
    [h \in DOMAIN cTransactions |->
        IF \E i \in DOMAIN departed : departed[i] = h
        THEN objects[CHOOSE i \in DOMAIN departed : departed[i] = h]
        ELSE cTransactions[h]]

\* What BatchTxStatus answers to one call: an error, or a list of results;
\* with a cancelled context every per-hash query fails.
CallAnswers ==
    {[err |-> TRUE, results |-> << >>]}
        \cup {[err |-> FALSE, results |-> r] :
                r \in [1..Len(departed) -> IF ctxDone THEN {NilResult} ELSE TxResults]}

\* A nil dereference in Displays has panicked on the interface goroutine:
\* nothing recovers it and the process ends.
Crashed == seen.panicked

\* time.NewTicker: the ticker sends a tick until the goroutine returns
\* (defer ticker.Stop()); one that finds the channel full is dropped.  The
\* clock moves with it.  A run that is not cancelled is followed for
\* StepTicks ticks.
TickerFires ==
    /\ ctype = ChainTypeCosmos
    /\ pc # "stopped"
    /\ now < StartTime + StepTicks \/ (ctxDone /\ ~ticker)
    /\ now' = IF now < StartTime + StepTicks THEN now + 1 ELSE now
    /\ ticker' = TRUE
    /\ UNCHANGED <<otherVars, update, ctype, cTransactions, cCompleted, eTransactions, eCompleted, last,
                   pc, ctxDone, fetched, departed, retries, calls, seen, boundary>>

\* A tick taken wherever the goroutine stands, as if every tick started a
\* pass of its own.
AtRangeOrBusy == pc # "stopped"

\* Whether the goroutine can take a tick from ticker.C.
AtRange == pc = "wait"

\* for range ticker.C
BeginTick ==
    /\ AtRange
    /\ ticker
    /\ ticker' = FALSE
    /\ pc' = "select"
    /\ fetched' = {} /\ departed' = << >> /\ retries' = 0 /\ calls' = 0
    /\ boundary' = [boundary EXCEPT !.began = now]
    /\ UNCHANGED <<otherVars, update, ctype, now, cTransactions, cCompleted, eTransactions, eCompleted, last,
                   ctxDone, seen>>

\* select { case <-ctx.Done(): return; default: }
Select ==
    /\ pc = "select"
    /\ pc' = IF ctxDone THEN "stopped" ELSE "fetch"
    /\ UNCHANGED <<otherVars, update, ctype, now, cTransactions, cCompleted, eTransactions, eCompleted, last,
                   ticker, ctxDone, fetched, departed, retries, calls, seen, boundary>>

\* A failed fetch taken for an empty pool: no continue.
AfterFetchNoContinue(err) == "diff"

\* if err != nil { continue }
AfterFetch(err) == IF err THEN "wait" ELSE "diff"

\* currentTxs, err := c.client.MempoolTxs(ctx, 1000), and currentTxMap.
Fetch ==
    /\ pc = "fetch"
    /\ \E err \in BOOLEAN, txs \in SUBSET Keys :
        /\ (ctxDone => err)
        /\ (err => txs = {})
        /\ fetched' = txs
        /\ pc' = AfterFetch(err)
        /\ last' = Answer(err, txs, << >>, 0, << >>)
    /\ UNCHANGED <<otherVars, update, ctype, now, cTransactions, cCompleted, eTransactions, eCompleted,
                   ticker, ctxDone, departed, retries, calls, seen, boundary>>

\* The map is replaced only in a pass that found a departure.
AfterRemovedSkipSwap(n) == IF n > 0 THEN "call" ELSE "wait"

\* if len(removedTransactions) > 0 { ... }; c.transactions = currentTxMap
AfterRemoved(n) == IF n > 0 THEN "call" ELSE "swap"

\* The transactions "for hash, tx := range c.transactions" has yet to find
\* removed.
ToRemove == CosmosRemovedHashes(cTransactions, fetched, cCompleted) \ Range(departed)

\* One iteration of the loop over c.transactions that finds a removed
\* transaction, in the order of the map iteration: the transaction is
\* stamped with time.Now() through its pointer and appended to
\* removedTransactions.  The step after the last iteration is the branch
\* on len(removedTransactions).
Diff ==
    /\ pc = "diff"
    /\ IF ToRemove = {}
       THEN /\ pc' = AfterRemoved(Len(departed))
            /\ UNCHANGED <<departed, cTransactions>>
       ELSE \E h \in ToRemove :
            /\ departed' = Append(departed, h)
            /\ cTransactions' = [cTransactions EXCEPT ![h].TimeCompleted = now]
            /\ pc' = IF ToRemove = {h} THEN AfterRemoved(Len(departed) + 1) ELSE "diff"
    /\ retries' = 0
    /\ UNCHANGED <<otherVars, update, ctype, now, cCompleted, last,
                   ticker, ctxDone, fetched, calls, seen, boundary>>
    /\ CosmosOthers

\* The goto without the bound.
AfterErrorUnbounded(n) == "call"

\* Where the goroutine goes after an erroring attempt that made the count n.
AfterError(n) == IF n < maxAttempts THEN "call" ELSE "append"

\* line: results, err := c.client.BatchTxStatus(ctx, txHashes) and the
\* branch it takes.
Call ==
    /\ pc = "call"
    /\ \E a \in CallAnswers :
        IF a.err
        THEN /\ cTransactions' = WriteBack(CosmosMarkError(RemovedObjects))
             /\ retries' = retries + 1
             /\ pc' = AfterError(retries + 1)
             /\ last' = [last EXCEPT !.errs = retries + 1]
        ELSE /\ cTransactions' = WriteBack(CosmosMarkResults(RemovedObjects, a.results))
             /\ retries' = retries
             /\ pc' = "append"
             /\ last' = [last EXCEPT !.results = a.results]
    /\ calls' = calls + 1
    /\ UNCHANGED <<otherVars, update, ctype, now, cCompleted,
                   ticker, ctxDone, fetched, departed, seen, boundary>>
    /\ CosmosOthers

\* c.completed = append(c.completed, removedTransactions...)
AppendRemoved ==
    /\ pc = "append"
    /\ cCompleted' = cCompleted \o RemovedObjects
    /\ last' = [last EXCEPT !.resolved = RemovedObjects]
    /\ pc' = "truncate"
    /\ UNCHANGED <<otherVars, update, ctype, now, cTransactions,
                   ticker, ctxDone, fetched, departed, retries, calls, seen, boundary>>
    /\ CosmosOthers

\* The cut of c.completed to its last maxCompleted entries.
Truncate ==
    /\ pc = "truncate"
    /\ cCompleted' = CosmosTruncate(cCompleted)
    /\ pc' = "swap"
    /\ UNCHANGED <<otherVars, update, ctype, now, cTransactions, last,
                   ticker, ctxDone, fetched, departed, retries, calls, seen, boundary>>
    /\ CosmosOthers

\* c.transactions = currentTxMap: the pass is over.  A Displays that is
\* reading has one more tick boundary it can have read.
Swap ==
    /\ pc = "swap"
    /\ cTransactions' = currentTxMap(fetched)
    /\ boundary' = [boundary EXCEPT !.transactions = cTransactions', !.completed = cCompleted]
    /\ seen' = IF seen.pc = "idle" THEN seen
               ELSE [seen EXCEPT !.bounds = @ \cup {<<cTransactions', cCompleted>>}]
    /\ pc' = "wait"
    /\ UNCHANGED <<otherVars, update, ctype, now, cCompleted, last,
                   ticker, ctxDone, fetched, departed, retries, calls>>
    /\ CosmosOthers

\* m.cancel() of Model.Update, on the key q.
Cancel ==
    /\ ctype = ChainTypeCosmos
    /\ ~Crashed
    /\ ~ctxDone
    /\ ctxDone' = TRUE
    /\ UNCHANGED <<otherVars, update, ctype, now, cTransactions, cCompleted, eTransactions, eCompleted, last,
                   pc, ticker, fetched, departed, retries, calls, seen, boundary>>

\* ------------------------------------------ Displays of the Cosmos model
\* The elements of a set of hashes in ascending order.
RECURSIVE SortedHashes(_)
SortedHashes(S) ==
    IF S = {} THEN << >> ELSE <<SetMin(S)>> \o SortedHashes(S \ {SetMin(S)})

\* The lines of the mempool box: the transactions by hash, at most
\* maxTxsPerBox of them.
MempoolBox(transactions) ==
    LET txs == SortedHashes(DOMAIN transactions)
    IN IF Len(txs) > maxTxsPerBox THEN SubSeq(txs, 1, maxTxsPerBox) ELSE txs

\* A nil *CosmosTransaction.
NilTransaction == [Hash |-> 0, Status |-> "nil", TimeCompleted |-> 0, HeightCompleted |-> 0]

\* copy(completed, c.completed) into a slice of n entries: the entries the
\* source does not have stay nil.
CopyCompleted(n, completed) ==
    [i \in 1..n |-> IF i <= Len(completed) THEN completed[i] ELSE NilTransaction]

\* Displays is called by the interface goroutine and takes no lock: each
\* read of c.transactions and c.completed is a step of its own.  seen.bounds
\* are the tick boundaries in force while it reads: the one it starts
\* after and those of the passes that end before it returns.
\* fmt.Sprintf("Mempool (%d txs)", len(c.transactions))
DisplaysHeader ==
    /\ ctype = ChainTypeCosmos
    /\ ~Crashed
    /\ seen.pc = "idle"
    /\ seen.n < MaxReads
    /\ seen' = [seen EXCEPT !.pc = "range", !.header = Cardinality(DOMAIN cTransactions),
                             !.bounds = {<<boundary.transactions, boundary.completed>>}]
    /\ UNCHANGED <<otherVars, update, ctype, now, cTransactions, cCompleted, eTransactions, eCompleted, last,
                   pc, ticker, ctxDone, fetched, departed, retries, calls, boundary>>

\* for _, tx := range c.transactions, and the lines of the box.
DisplaysRange ==
    /\ seen.pc = "range"
    /\ seen' = [seen EXCEPT !.pc = "len", !.transactions = MempoolBox(cTransactions)]
    /\ UNCHANGED <<otherVars, update, ctype, now, cTransactions, cCompleted, eTransactions, eCompleted, last,
                   pc, ticker, ctxDone, fetched, departed, retries, calls, boundary>>

\* completed := make([]*CosmosTransaction, len(c.completed))
DisplaysLen ==
    /\ seen.pc = "len"
    /\ seen' = [seen EXCEPT !.pc = "copy", !.completedLen = Len(cCompleted)]
    /\ UNCHANGED <<otherVars, update, ctype, now, cTransactions, cCompleted, eTransactions, eCompleted, last,
                   pc, ticker, ctxDone, fetched, departed, retries, calls, boundary>>

\* copy(completed, c.completed) and set[tx.Hash] = tx over the copy, which
\* panics on a nil entry: the program ends.
DisplaysCopy ==
    /\ seen.pc = "copy"
    /\ LET copied == CopyCompleted(seen.completedLen, cCompleted)
           panics == \E i \in DOMAIN copied : copied[i] = NilTransaction
       IN /\ seen' = [seen EXCEPT !.pc = "idle", !.n = seen.n + 1,
                                  !.completed = copied, !.panicked = panics]
          /\ pc' = IF panics THEN "stopped" ELSE pc
    /\ UNCHANGED <<otherVars, update, ctype, now, cTransactions, cCompleted, eTransactions, eCompleted, last,
                   ticker, ctxDone, fetched, departed, retries, calls, boundary>>

\* ---------------------------------------------------------- Ethereum model
Pools == {"pending", "queued"}

\* tx.Data.Gas: the gas limit of the transaction with this hash.  The first
\* of the reported hashes is the most expensive transaction of the run.
GasOf(hash) ==
    IF hash = 1 THEN 21000 * (NumKeys + PreFill + 1) ELSE 21000 * hash

\* &Transaction{PoolName: poolName, Data: tx, Status: StatusTypeInMempool}
NewEthTransaction(hash, poolName) ==
    [Hash |-> hash, Gas |-> GasOf(hash), PoolName |-> poolName, Status |-> StatusTypeInMempool]

\* A *types.Receipt of BatchTransactionReceipts: nil, or status and block.
NilReceipt == [isNil |-> TRUE, Status |-> 0, BlockNumber |-> 0]
Receipts ==
    {NilReceipt}
        \cup {[isNil |-> FALSE, Status |-> 1, BlockNumber |-> h] : h \in Heights}
        \cup {[isNil |-> FALSE, Status |-> 0, BlockNumber |-> MaxHeight]}

\* The responses of txpool_content: every reported hash is in one pool;
\* transaction 1 is the one that can wait in the queued pool.
TxPoolContentResponses ==
    {p \in UNION {[S -> Pools] : S \in SUBSET Keys} :
        \A h \in DOMAIN p : p[h] = "queued" => h = 1}

\* cmp.Compare(a.Data.Gas, b.Data.Gas)
ByGas(tx) == tx.Gas

\* ConvertToMap: the pools that hold a transaction, each with its
\* transactions in the order the map iteration appended them.
ConvertToMap(p) ==
    LET pools == {p[h] : h \in DOMAIN p}
        inPool(pool) == {NewEthTransaction(h, pool) : h \in {k \in DOMAIN p : p[k] = pool}}
    IN {m \in [pools -> UNION {OrdersOf(inPool(pool)) : pool \in pools}] :
            \A pool \in pools : m[pool] \in OrdersOf(inPool(pool))}

\* for poolName, txs := range txMap: every pool's transactions by gas.
SortPools(converted) ==
    {m \in [DOMAIN converted ->
                UNION {SortFunc(converted[pool], ByGas) : pool \in DOMAIN converted}] :
        \A pool \in DOMAIN converted : m[pool] \in SortFunc(converted[pool], ByGas)}

\* The current hashes of the pending pool alone.
EthCurrentTxHashesOfPending(txMap) ==
    IF "pending" \in DOMAIN txMap
    THEN {txMap["pending"][i].Hash : i \in DOMAIN txMap["pending"]} ELSE {}

\* currentTxHashes
EthCurrentTxHashes(txMap) ==
    UNION {{txMap[pool][i].Hash : i \in DOMAIN txMap[pool]} : pool \in DOMAIN txMap}

\* removedTransactions: the transactions of e.transactions, pool by pool in
\* the order the map iteration visits the pools, that are not in txMap.
RECURSIVE EthRemoved(_, _, _)
EthRemoved(transactions, poolOrder, current) ==
    IF poolOrder = << >> THEN << >>
    ELSE SelectSeq(transactions[Head(poolOrder)], LAMBDA t : t.Hash \notin current)
            \o EthRemoved(transactions, Tail(poolOrder), current)

\* The status of a removed transaction from its receipt.
EthClassify(tx, receipt) ==
    IF receipt.isNil THEN [tx EXCEPT !.Status = StatusTypeEvicted]
    ELSE IF receipt.Status = 1 THEN [tx EXCEPT !.Status = StatusTypeSuccess]
    ELSE [tx EXCEPT !.Status = StatusTypeFailed]

\* The receipts branch of Update: one call, no retry; an error marks every
\* removed transaction Evicted.
EthResolve(removed, errs, receipts) ==
    [i \in 1..Len(removed) |->
        IF errs > 0 THEN [removed[i] EXCEPT !.Status = StatusTypeEvicted]
        ELSE IF i <= Len(receipts) THEN EthClassify(removed[i], receipts[i])
        ELSE removed[i]]

\* Keep only the last 50 completed transactions.
EthTruncate(completed) ==
    IF Len(completed) > maxCompleted THEN LastN(completed, maxCompleted) ELSE completed

\* The answers of BatchTransactionReceipts for n hashes: an error, or one
\* receipt per hash.
ReceiptAnswers(n) ==
    {[errs |-> 0, results |-> r] : r \in [1..n -> Receipts]}
        \cup {[errs |-> 1, results |-> << >>]}

\* The hashes of the response p that e.transactions holds in another pool.
EthMoved(transactions, p) ==
    {h \in DOMAIN p :
        \E pool \in DOMAIN transactions \ {p[h]} :
            \E i \in DOMAIN transactions[pool] : transactions[pool][i].Hash = h}

\* What Update does to the other models: the fields it writes are those
\* of its own EthModel.
EthOthers == UNCHANGED <<cTransactions, cCompleted>>

\* ------------------------------------ a call of Update, by statement
\* The removed transactions of the call in progress: the pointers of
\* removedTransactions point into e.transactions.
EthRemovedObjects ==
    [i \in 1..Len(update.removed) |->
        CHOOSE t \in UNION {Range(eTransactions[pool]) : pool \in DOMAIN eTransactions} :
            t.Hash = update.removed[i]]

\* e.transactions after writes through removedTransactions[i].
EthWriteBack(objects) ==
    [pool \in DOMAIN eTransactions |->
        [i \in DOMAIN eTransactions[pool] |->
            IF \E j \in DOMAIN update.removed : update.removed[j] = eTransactions[pool][i].Hash
            THEN objects[CHOOSE j \in DOMAIN update.removed :
                            update.removed[j] = eTransactions[pool][i].Hash]
            ELSE eTransactions[pool][i]]]

\* Update is called and waits for TxPoolContent.  The source holds no
\* caller of Update; its calls are taken as the ticks of a data source are
\* described, each beginning when the one before has returned.
EthCall ==
    /\ update.pc = "idle"
    /\ now < MaxTime
    /\ now' = now + 1
    /\ update' = [update EXCEPT !.pc = "fetch"]
    /\ UNCHANGED <<otherVars, stepVars, ctype, cTransactions, cCompleted,
                   eTransactions, eCompleted, last>>

\* Where Update goes with n removed transactions.
EthAfterRemoved(n) == IF n > 0 THEN "call" ELSE "swap"

\* res, err := e.client.TxPoolContent(ctx) returns: on an error Update
\* returns; otherwise ConvertToMap, the sort of every pool by gas,
\* currentTxHashes and the loop over e.transactions that collects
\* removedTransactions.
EthFetch ==
    /\ update.pc = "fetch"
    /\ \E err \in BOOLEAN, p \in TxPoolContentResponses :
        /\ (err => p = << >>)
        /\ \E txMap \in UNION {SortPools(converted) : converted \in ConvertToMap(p)},
              poolOrder \in OrdersOf(DOMAIN eTransactions) :
            LET removed == EthRemoved(eTransactions, poolOrder, EthCurrentTxHashes(txMap))
                answer == [Answer(err, DOMAIN p, << >>, 0, << >>)
                              EXCEPT !.moved = EthMoved(eTransactions, p)]
            IN update' = IF err THEN [update EXCEPT !.pc = "idle", !.answer = answer]
                         ELSE [update EXCEPT !.pc = EthAfterRemoved(Len(removed)),
                                             !.txMap = txMap,
                                             !.removed = [i \in 1..Len(removed) |->
                                                             removed[i].Hash],
                                             !.answer = answer]
    /\ UNCHANGED <<otherVars, stepVars, ctype, now, cTransactions, cCompleted,
                   eTransactions, eCompleted, last>>

\* receipts, err := e.client.BatchTransactionReceipts(ctx, txHashes) returns,
\* and the statuses are written through the pointers.
EthReceipts ==
    /\ update.pc = "call"
    /\ \E a \in ReceiptAnswers(Len(update.removed)) :
        /\ eTransactions' = EthWriteBack(EthResolve(EthRemovedObjects, a.errs, a.results))
        /\ update' = [update EXCEPT !.pc = "append", !.answer.errs = a.errs,
                                    !.answer.results = a.results]
    /\ UNCHANGED <<otherVars, stepVars, ctype, now, eCompleted, last>>
    /\ EthOthers

\* e.completed = append(e.completed, removedTransactions...)
EthAppendRemoved ==
    /\ update.pc = "append"
    /\ eCompleted' = eCompleted \o EthRemovedObjects
    /\ update' = [update EXCEPT !.pc = "sort", !.answer.resolved = EthRemovedObjects]
    /\ UNCHANGED <<otherVars, stepVars, ctype, now, eTransactions, last>>
    /\ EthOthers

\* slices.SortFunc(e.completed, ...) by gas, in place.
EthSort ==
    /\ update.pc = "sort"
    /\ eCompleted' \in SortFunc(eCompleted, ByGas)
    /\ update' = [update EXCEPT !.pc = "cut"]
    /\ UNCHANGED <<otherVars, stepVars, ctype, now, eTransactions, last>>
    /\ EthOthers

\* The cut of e.completed to its last maxCompleted entries.
EthCut ==
    /\ update.pc = "cut"
    /\ eCompleted' = EthTruncate(eCompleted)
    /\ update' = [update EXCEPT !.pc = "swap"]
    /\ UNCHANGED <<otherVars, stepVars, ctype, now, eTransactions, last>>
    /\ EthOthers

\* e.transactions = txMap: Update returns.
EthSwap ==
    /\ update.pc = "swap"
    /\ eTransactions' = update.txMap
    /\ update' = [update EXCEPT !.pc = "idle", !.transactions = update.txMap,
                                !.completed = eCompleted]
    /\ UNCHANGED <<otherVars, stepVars, ctype, now, eCompleted, last>>
    /\ EthOthers

\* The statements of a call of Update after it has begun.
EthNext == EthFetch \/ EthReceipts \/ EthAppendRemoved \/ EthSort \/ EthCut \/ EthSwap

\* A call of Update on the Ethereum model, the configured data source.
EthUpdate == ctype = ChainTypeEthereum /\ EthCall

\* The completed list of an Ethereum model that has run for a while, by gas.
EthFill ==
    [i \in 1..PreFill |->
        LET hash == IF i = PreFill THEN 1 ELSE NumKeys + i
        IN [Hash |-> hash, Gas |-> GasOf(hash), PoolName |-> "pending",
            Status |-> StatusTypeEvicted]]

\* The completed list of a model that has run for a while: transaction 1
\* and then PreFill - 1 others left the pool, one per tick, and were not
\* found.
CosmosFill ==
    [i \in 1..PreFill |->
        [Hash |-> IF i = 1 THEN 1 ELSE NumKeys + i - 1, Status |-> StatusTypeUnknown,
         TimeCompleted |-> i, HeightCompleted |-> 0]]

\* A call and what the node answers to it.
AdapterCall(fn, err, items) == [fn |-> fn, err |-> err, items |-> items]

\* No call has returned.
NoOutput == [done |-> FALSE, err |-> FALSE, results |-> << >>]

\* No adapter call under study, and no subscription model.
OtherIdle ==
    /\ input = AdapterCall("none", FALSE, << >>)
    /\ output = NoOutput
    /\ subTxs = << >> /\ subReceived = << >> /\ subPc = "returned"

\* No call of Update has begun.
EthIdle ==
    update = [pc |-> "idle", txMap |-> << >>, removed |-> << >>,
              answer |-> Answer(FALSE, {}, << >>, 0, << >>),
              transactions |-> eTransactions, completed |-> eCompleted]

\* The goroutine before its first pass, and no Displays yet.
StepIdle ==
    /\ pc = "wait" /\ ticker = FALSE /\ ctxDone = FALSE
    /\ fetched = {} /\ departed = << >> /\ retries = 0 /\ calls = 0
    /\ seen = [n |-> 0, pc |-> "idle", header |-> 0, transactions |-> << >>,
               completedLen |-> 0, completed |-> << >>, panicked |-> FALSE, bounds |-> {}]
    /\ boundary = [transactions |-> cTransactions, completed |-> cCompleted,
                   began |-> StartTime]

\* One configured data source, its model as NewCosmosModel or NewEthModel
\* builds it or as it is after it has run for a while.
Init ==
    /\ ctype \in {ChainTypeCosmos, ChainTypeEthereum}
    /\ now = StartTime
    /\ cTransactions = << >>
    /\ cCompleted \in (IF ctype = ChainTypeCosmos THEN {<< >>, CosmosFill} ELSE {<< >>})
    /\ eTransactions = << >>
    /\ eCompleted \in (IF ctype = ChainTypeEthereum THEN {<< >>, EthFill} ELSE {<< >>})
    /\ last = Answer(FALSE, {}, << >>, 0, << >>)
    /\ StepIdle
    /\ EthIdle
    /\ OtherIdle

\* The statements of the goroutine and its ticker.
PassNext ==
    \/ TickerFires \/ BeginTick \/ Select \/ Fetch \/ Diff \/ Call
    \/ AppendRemoved \/ Truncate \/ Swap

\* The Cosmos goroutine by statement, or calls of Update on the Ethereum
\* model by statement.
Next == PassNext \/ EthUpdate \/ EthNext

Spec == Init /\ [][Next]_vars

StepInit ==
    /\ ctype = ChainTypeCosmos
    /\ now = StartTime
    /\ cTransactions = << >>
    /\ cCompleted \in {<< >>, CosmosFill}
    /\ eTransactions = << >>
    /\ eCompleted = << >>
    /\ last = Answer(FALSE, {}, << >>, 0, << >>)
    /\ StepIdle
    /\ EthIdle
    /\ OtherIdle

\* The goroutine beside the cancellation of its context and Displays.
StepNext ==
    \/ PassNext \/ Cancel
    \/ DisplaysHeader \/ DisplaysRange \/ DisplaysLen \/ DisplaysCopy

StepSpec == StepInit /\ [][StepNext]_vars

\* The goroutine runs as long as it can take a step, and the ticker keeps
\* sending while the goroutine has not returned.
StepFairSpec ==
    /\ StepSpec
    /\ WF_vars(BeginTick \/ Select \/ Fetch \/ Diff \/ Call \/ AppendRemoved \/ Truncate \/ Swap)
    /\ WF_vars(TickerFires)

\* The goroutine alone: no cancellation, no Displays.
PassSpec == StepInit /\ [][PassNext]_vars

PassFairSpec ==
    /\ PassSpec
    /\ WF_vars(BeginTick \/ Select \/ Fetch \/ Diff \/ Call \/ AppendRemoved \/ Truncate \/ Swap)
    /\ WF_vars(TickerFires)

\* ------------------------------------------------------- the adapter calls
\* Hashes of one batch call, and raw transactions of one fetch.
MaxBatch == 2

\* The ways c.client.Tx answers a query that reached it.
TxFound == "found"
TxNotFound == "not found"
TxTransport == "transport"

\* What the node holds for one hash of a Cosmos batch: whether the hash is
\* hexadecimal, how c.client.Tx answers, and the result when it is found.
CosmosLookups ==
    {[hexOk |-> FALSE, tx |-> TxNotFound, result |-> NilResult]}
        \cup {[hexOk |-> TRUE, tx |-> t, result |-> NilResult] : t \in {TxNotFound, TxTransport}}
        \cup {[hexOk |-> TRUE, tx |-> TxFound, result |-> r] : r \in TxResults \ {NilResult}}

\* TxStatus: the hash is decoded, the node is queried, and either fails
\* the call.
TxStatus(lookup) ==
    IF ~lookup.hexOk THEN [err |-> TRUE, result |-> NilResult]
    ELSE IF lookup.tx # TxFound THEN [err |-> TRUE, result |-> NilResult]
    ELSE [err |-> FALSE, result |-> lookup.result]

\* The batch call that returns the error of a failing TxStatus.
BatchTxStatusFailing(lookups) ==
    IF \E i \in DOMAIN lookups : TxStatus(lookups[i]).err
    THEN [err |-> TRUE, results |-> << >>]
    ELSE [err |-> FALSE, results |-> [i \in 1..Len(lookups) |-> TxStatus(lookups[i]).result]]

\* BatchTxStatus: one TxStatus per hash, nil where it failed.
BatchTxStatus(lookups) ==
    [err |-> FALSE,
     results |-> [i \in 1..Len(lookups) |->
                    IF TxStatus(lookups[i]).err THEN NilResult
                    ELSE TxStatus(lookups[i]).result]]

\* One element of an Ethereum batch after BatchCallContext: its Error, and
\* the receipt decoded into its Result (nil for a null answer).
BatchElems ==
    {[Error |-> TRUE, Result |-> NilReceipt]}
        \cup {[Error |-> FALSE, Result |-> r] : r \in Receipts}

\* BatchTransactionReceipts: nothing for no hash, the error of the batch
\* call, or one receipt per hash, nil where the element has an error.
BatchTransactionReceipts(err, elems) ==
    IF Len(elems) = 0 THEN [err |-> FALSE, results |-> << >>]
    ELSE IF err THEN [err |-> TRUE, results |-> << >>]
    ELSE [err |-> FALSE,
          results |-> [i \in 1..Len(elems) |->
                         IF elems[i].Error THEN NilReceipt ELSE elems[i].Result]]

\* The sequences of at most MaxBatch elements of S.
SeqsUpTo(S) == UNION {[1..n -> S] : n \in 0..MaxBatch}

Returned(r) == [done |-> TRUE, err |-> r.err, results |-> r.results]

CallBatchTxStatus ==
    /\ input.fn = "BatchTxStatus"
    /\ ~output.done
    /\ output' = Returned(BatchTxStatus(input.items))
    /\ UNCHANGED <<stepVars, update, ctype, now, cTransactions, cCompleted, eTransactions, eCompleted,
                   last, input, subTxs, subReceived, subPc>>

CallBatchTransactionReceipts ==
    /\ input.fn = "BatchTransactionReceipts"
    /\ ~output.done
    /\ output' = Returned(BatchTransactionReceipts(input.err, input.items))
    /\ UNCHANGED <<stepVars, update, ctype, now, cTransactions, cCompleted, eTransactions, eCompleted,
                   last, input, subTxs, subReceived, subPc>>

\* The raw transactions UnconfirmedTxs can report: the bytes of a
\* transaction with this hash, which unmarshal or do not.
RawTxs == {[hash |-> h, decodable |-> b] : h \in Keys, b \in BOOLEAN}

\* decodeTransaction: the transaction of the bytes.
decodeTransaction(txBytes) ==
    IF txBytes.decodable THEN [err |-> FALSE, tx |-> [Hash |-> txBytes.hash]]
    ELSE [err |-> TRUE, tx |-> [Hash |-> 0]]

\* The transactions of the raw ones that decode, in their order.
RECURSIVE DecodeEach(_)
DecodeEach(raw) ==
    IF raw = << >> THEN << >>
    ELSE (IF decodeTransaction(Head(raw)).err THEN << >>
          ELSE <<decodeTransaction(Head(raw)).tx>>) \o DecodeEach(Tail(raw))

\* The fetch that returns the first decoding error.
MempoolTxsAbortOnFailure(err, raw) ==
    IF err \/ \E i \in DOMAIN raw : decodeTransaction(raw[i]).err
    THEN [err |-> TRUE, results |-> << >>]
    ELSE [err |-> FALSE, results |-> DecodeEach(raw)]

\* MempoolTxs: the error of UnconfirmedTxs, or the transactions that decode.
MempoolTxs(err, raw) ==
    IF err THEN [err |-> TRUE, results |-> << >>]
    ELSE [err |-> FALSE, results |-> DecodeEach(raw)]

\* decodeTransactions of comet.go: the transactions that decode, no error.
decodeTransactions(txBytes) == [err |-> FALSE, results |-> DecodeEach(txBytes)]

CallMempoolTxs ==
    /\ input.fn = "MempoolTxs"
    /\ ~output.done
    /\ output' = Returned(MempoolTxs(input.err, input.items))
    /\ UNCHANGED <<stepVars, update, ctype, now, cTransactions, cCompleted, eTransactions, eCompleted,
                   last, input, subTxs, subReceived, subPc>>

CallDecodeTransactions ==
    /\ input.fn = "decodeTransactions"
    /\ ~output.done
    /\ output' = Returned(decodeTransactions(input.items))
    /\ UNCHANGED <<stepVars, update, ctype, now, cTransactions, cCompleted, eTransactions, eCompleted,
                   last, input, subTxs, subReceived, subPc>>

\* The calls of one run and the answers of the node.
AdapterInputs ==
    {AdapterCall("BatchTxStatus", FALSE, l) : l \in SeqsUpTo(CosmosLookups)}
        \cup {AdapterCall("BatchTransactionReceipts", e, l) :
                e \in BOOLEAN, l \in SeqsUpTo(BatchElems)}
        \cup {AdapterCall("MempoolTxs", e, l) : e \in BOOLEAN, l \in SeqsUpTo(RawTxs)}
        \cup {AdapterCall("decodeTransactions", FALSE, l) : l \in SeqsUpTo(RawTxs)}

AdapterInit ==
    /\ ctype = ChainTypeCosmos
    /\ now = StartTime
    /\ cTransactions = << >> /\ cCompleted = << >>
    /\ eTransactions = << >> /\ eCompleted = << >>
    /\ last = Answer(FALSE, {}, << >>, 0, << >>)
    /\ StepIdle
    /\ EthIdle
    /\ input \in AdapterInputs
    /\ output = NoOutput
    /\ subTxs = << >> /\ subReceived = << >> /\ subPc = "returned"

AdapterNext ==
    \/ CallBatchTxStatus \/ CallBatchTransactionReceipts
    \/ CallMempoolTxs \/ CallDecodeTransactions

AdapterSpec == AdapterInit /\ [][AdapterNext]_vars

\* ------------------------------------------------- the subscription model
\* subscriber.NewSubModel(client, "eth", 10)
maxDisplay == 10
\* Transactions the subscription delivers in one run.
MaxReceived == 11

\* The transactions the subscription can deliver.
SubTransactions == {[Hash |-> h] : h \in Keys}

\* s.txs = append([]*types.Transaction{tx}, s.txs...)
SubPrepend(txs, tx) == <<tx>> \o txs

\* The buffer left as the prepend made it: it grows.
SubTrimNever(txs) == txs

\* if len(s.txs) > s.maxDisplay { s.txs = s.txs[:s.maxDisplay] }
SubTrim(txs) == IF Len(txs) > maxDisplay THEN SubSeq(txs, 1, maxDisplay) ELSE txs

\* case tx, open := <-txChannel, with the channel open, and the prepend.
SubReceive ==
    /\ subPc = "select"
    /\ Len(subReceived) < MaxReceived
    /\ \E tx \in SubTransactions :
        /\ subTxs' = SubPrepend(subTxs, tx)
        /\ subReceived' = Append(subReceived, tx)
    /\ subPc' = "trim"
    /\ UNCHANGED <<stepVars, update, ctype, now, cTransactions, cCompleted, eTransactions, eCompleted,
                   last, input, output>>

\* The trim of the buffer, a write of its own after the prepend.
SubCut ==
    /\ subPc = "trim"
    /\ subTxs' = SubTrim(subTxs)
    /\ subPc' = "select"
    /\ UNCHANGED <<stepVars, update, ctype, now, cTransactions, cCompleted, eTransactions, eCompleted,
                   last, input, output, subReceived>>

\* case <-ctx.Done(), or the channel closed: the goroutine returns.
SubReturn ==
    /\ subPc = "select"
    /\ subPc' = "returned"
    /\ UNCHANGED <<stepVars, update, ctype, now, cTransactions, cCompleted, eTransactions, eCompleted,
                   last, input, output, subTxs, subReceived>>

\* NewSubModel and Start: an empty buffer and a running goroutine.
SubInit ==
    /\ ctype = ChainTypeEthereum
    /\ now = StartTime
    /\ cTransactions = << >> /\ cCompleted = << >>
    /\ eTransactions = << >> /\ eCompleted = << >>
    /\ last = Answer(FALSE, {}, << >>, 0, << >>)
    /\ StepIdle
    /\ EthIdle
    /\ input = AdapterCall("none", FALSE, << >>)
    /\ output = NoOutput
    /\ subTxs = << >> /\ subReceived = << >> /\ subPc = "select"

SubNext == SubReceive \/ SubCut \/ SubReturn

SubSpec == SubInit /\ [][SubNext]_vars

\* ------------------------------------------------- several data sources
\* Ticks of one run of several models.
MultiTicks == 2

\* getXrays with a Cosmos and an Ethereum chain configured: each model is
\* built empty; ctype is the chain type of the first.
MultiInit ==
    /\ ctype = ChainTypeCosmos
    /\ now = StartTime
    /\ cTransactions = << >> /\ cCompleted = << >>
    /\ eTransactions = << >> /\ eCompleted = << >>
    /\ last = Answer(FALSE, {}, << >>, 0, << >>)
    /\ StepIdle
    /\ EthIdle
    /\ OtherIdle

\* A call of Update on the Ethereum model beside the Cosmos goroutine.
MultiEthUpdate == now < StartTime + MultiTicks /\ EthCall

\* The statements of the Cosmos goroutine and those of the calls of Update,
\* in any interleaving.
MultiNext == PassNext \/ MultiEthUpdate \/ EthNext

MultiSpec == MultiInit /\ [][MultiNext]_vars

\* ------------------------------------------------------------------ views
\* What the adapter answered in the latest tick of the configured model.
Latest == IF ctype = ChainTypeCosmos THEN last ELSE update.answer

\* The keys of the current pending map of the configured model.
CurrentPending ==
    IF ctype = ChainTypeCosmos THEN DOMAIN cTransactions
    ELSE EthCurrentTxHashes(eTransactions)

\* The completed list of the configured model.
History == IF ctype = ChainTypeCosmos THEN cCompleted ELSE eCompleted

HashesOf(txs) == {txs[i].Hash : i \in DOMAIN txs}

Occurrences(txs, hash) == Cardinality({i \in DOMAIN txs : txs[i].Hash = hash})

\* The same elements, each as often, in any order.
SameElements(s, t) ==
    /\ Len(s) = Len(t)
    /\ \A x \in Range(s) \cup Range(t) :
        Cardinality({i \in DOMAIN s : s[i] = x}) = Cardinality({i \in DOMAIN t : t[i] = x})

\* The last status call of the latest tick answered (results) or every
\* attempt of it errored.
BatchAnswered == Len(Latest.resolved) > 0 /\ Len(Latest.results) > 0
BatchFailed == Len(Latest.resolved) > 0 /\ Len(Latest.results) = 0

\* The height a completed transaction carries; the Ethereum Transaction has
\* no height.
ResolvedHeight(tx) == IF "HeightCompleted" \in DOMAIN tx THEN tx.HeightCompleted ELSE 0

\* The inclusion result at position i of the latest answer: whether it is
\* one, whether it indicates success, and its block height.
ResultFound(i) == ~Latest.results[i].isNil
ResultSuccess(i) ==
    IF ctype = ChainTypeCosmos
    THEN Latest.results[i].isExec /\ Latest.results[i].Code = CodeTypeOK
    ELSE Latest.results[i].Status = 1
ResultHeight(i) ==
    IF ctype = ChainTypeCosmos THEN Latest.results[i].Height ELSE Latest.results[i].BlockNumber

\* -cmp of TimeCompleted: newer first.
ByTimeDesc(tx) == 0 - tx.TimeCompleted

\* The elements of s at the indices idxs, in index order.
RECURSIVE Pick(_, _)
Pick(s, idxs) ==
    IF idxs = {} THEN << >>
    ELSE LET i == SetMin(idxs) IN <<s[i]>> \o Pick(s, idxs \ {i})

\* set[tx.Hash] = tx over the completed list: the last transaction of
\* every hash.
CosmosNormalize(completed) ==
    Pick(completed,
         {i \in DOMAIN completed :
            \A j \in DOMAIN completed : j > i => completed[j].Hash # completed[i].Hash})

\* The completed box of CosmosModel.Displays: the values of the set, which
\* come in any order, sorted newest first.
CosmosDisplayCompleted(completed) == SortFunc(CosmosNormalize(completed), ByTimeDesc)

\* The completed box of EthModel.Displays: the last maxTxsPerBox entries.
EthDisplayCompleted(completed) ==
    {IF Len(completed) > maxTxsPerBox THEN LastN(completed, maxTxsPerBox) ELSE completed}

\* The history views rendering can show.
HistoryViews ==
    IF ctype = ChainTypeCosmos THEN CosmosDisplayCompleted(cCompleted)
    ELSE EthDisplayCompleted(eCompleted)

\* ----------------------------------------------------------------- claims
\* A pass of the goroutine is in progress.
InPass == pc \notin {"wait", "stopped"}

\* No tick of the configured model is in progress: no call of Update, or
\* the Cosmos goroutine between two passes.
AtBoundary == IF ctype = ChainTypeCosmos THEN ~InPass ELSE update.pc = "idle"

\* This step ends a tick of the configured model: the Cosmos goroutine goes
\* back to wait for the ticker, or Update returns.
TickEnds ==
    IF ctype = ChainTypeCosmos THEN pc # "wait" /\ pc' = "wait"
    ELSE update.pc # "idle" /\ update'.pc = "idle"

\* The pending keys and the history when the tick in progress began: those
\* the latest pass, or the latest call of Update, left.
PendingBefore ==
    IF ctype = ChainTypeCosmos THEN DOMAIN boundary.transactions
    ELSE EthCurrentTxHashes(update.transactions)
HistoryBefore == IF ctype = ChainTypeCosmos THEN boundary.completed ELSE update.completed

\* The clock when the tick in progress began; Update is called at a tick
\* of the clock.
TimeBefore == IF ctype = ChainTypeCosmos THEN boundary.began ELSE now - 1

\* C1: after every tick the keys of the pending map and the keys of the
\* history are disjoint.
C1_PartitionInvariant == AtBoundary => CurrentPending \cap HashesOf(History) = {}

\* C2: a key that is in the pending map after one tick and absent from it
\* after the next is in the history after that tick, exactly once.
C2_NoSilentLoss ==
    [][TickEnds =>
        \A k \in PendingBefore :
            k \notin CurrentPending' => Occurrences(History', k) = 1]_vars

\* C3: when every attempt of the batch status call errors, every key of the
\* batch enters history with status Unknown, none with Evicted.
C3_RetryThenDegrade ==
    (AtBoundary /\ BatchFailed) =>
        \A i \in DOMAIN Latest.resolved : Latest.resolved[i].Status = StatusTypeUnknown

\* C4: when the batch status call succeeds and reports a departed key as not
\* found (nil at its position), the key enters history with status Evicted.
C4_NotFoundIsEvicted ==
    (AtBoundary /\ BatchAnswered) =>
        \A i \in DOMAIN Latest.resolved :
            ~ResultFound(i) => Latest.resolved[i].Status = StatusTypeEvicted

\* C5: a tick whose fetch errors leaves the pending map and the history as
\* they were, computes no departed key, makes no status call and adds no
\* record.
C5_FetchFailureNoOp ==
    [][(TickEnds /\ Latest'.fetchErr) =>
        /\ cTransactions' = boundary.transactions /\ cCompleted' = boundary.completed
        /\ eTransactions' = update.transactions /\ eCompleted' = update.completed
        /\ Latest'.resolved = << >> /\ Latest'.errs = 0 /\ Latest'.results = << >>
        /\ departed' = << >> /\ calls' = 0]_vars

\* C5 witness: a tick ended on a failed fetch while transactions were
\* pending and the history was not empty.
C5_Witness == AtBoundary /\ Latest.fetchErr /\ CurrentPending # {} /\ Len(History) > 0

\* C6: at every tick boundary the history holds at most maxCompleted (50)
\* entries.
C6_BoundedHistory ==
    AtBoundary => Len(cCompleted) <= maxCompleted /\ Len(eCompleted) <= maxCompleted

\* C6 witness: a tick appended to a full history, which is at the bound
\* after it, without an entry it held before.
C6_Witness ==
    /\ AtBoundary
    /\ Len(Latest.resolved) > 0
    /\ Len(History) = maxCompleted
    /\ \/ ctype = ChainTypeCosmos /\ \E i \in DOMAIN CosmosFill : CosmosFill[i] \notin Range(cCompleted)
       \/ ctype = ChainTypeEthereum /\ \E i \in DOMAIN EthFill : EthFill[i] \notin Range(eCompleted)

\* C7: the history view shown to rendering has at most one entry per key,
\* and the entry shown for a key is the latest record added for it.
C7_DedupView ==
    AtBoundary =>
        \A v \in HistoryViews :
            /\ \A i, j \in DOMAIN v : v[i].Hash = v[j].Hash => i = j
            /\ \A i \in DOMAIN v : \A j \in DOMAIN History :
                (History[j].Hash = v[i].Hash /\ History[j] # v[i]) =>
                    \E l \in DOMAIN History : l > j /\ History[l] = v[i]

\* C8: a key that has been resolved into history is never re-admitted to
\* the pending map, whatever a later snapshot reports.
C8_ResolvedIsTerminal ==
    [][TickEnds =>
        \A k \in HashesOf(HistoryBefore) :
            k \notin PendingBefore => k \notin CurrentPending']_vars

\* C9: when appending makes the history exceed maxCompleted, the entries
\* kept are exactly the maxCompleted most recently resolved ones.
C9_OverflowKeepsMostRecent ==
    [][(TickEnds /\ Len(HistoryBefore) + Len(Latest'.resolved) > maxCompleted) =>
        SameElements(History', LastN(HistoryBefore \o Latest'.resolved, maxCompleted))]_vars

\* C10: a concrete result with a success indicator gives status Success and
\* records the result's block height, one with a failure indicator gives
\* Failed, and a history entry has a non-zero height only with Success.
C10_SuccessRecordsHeight ==
    AtBoundary =>
        /\ BatchAnswered =>
            \A i \in DOMAIN Latest.resolved :
                ResultFound(i) =>
                    IF ResultSuccess(i)
                    THEN /\ Latest.resolved[i].Status = StatusTypeSuccess
                         /\ ResolvedHeight(Latest.resolved[i]) = ResultHeight(i)
                    ELSE Latest.resolved[i].Status = StatusTypeFailed
        /\ \A i \in DOMAIN History :
            ResolvedHeight(History[i]) # 0 => History[i].Status = StatusTypeSuccess

\* The positions of the latest Cosmos answer whose result is not nil and
\* fails the type assertion to types.ExecTxResult.
TypeMismatches ==
    {i \in DOMAIN Latest.resolved : ResultFound(i) /\ ~Latest.results[i].isExec}

\* C11 as stated: in the Cosmos path a result whose execution-result value
\* is not of the expected type resolves to Unknown.
C11_TypeMismatchIsUnknown ==
    (ctype = ChainTypeCosmos /\ BatchAnswered) =>
        \A i \in TypeMismatches : Latest.resolved[i].Status = StatusTypeUnknown

\* C11 amended: in the Cosmos path a result whose execution-result value is
\* not of the expected type resolves to Failed, like a result with a
\* non-zero code; it is never Success or Unknown.
C11_TypeMismatchIsFailed ==
    (ctype = ChainTypeCosmos /\ BatchAnswered) =>
        \A i \in TypeMismatches : Latest.resolved[i].Status = StatusTypeFailed

\* C11 witness: the status call answered with a result of another type, and
\* the pass has ended.
C11_Witness == ctype = ChainTypeCosmos /\ AtBoundary /\ BatchAnswered /\ TypeMismatches # {}


\* Every transaction of the pending map has the in-mempool status.
PendingFresh ==
    IF ctype = ChainTypeCosmos
    THEN \A h \in DOMAIN cTransactions : cTransactions[h] = NewCosmosTransaction(h)
    ELSE \A pool \in DOMAIN eTransactions : \A i \in DOMAIN eTransactions[pool] :
            eTransactions[pool][i].Status = StatusTypeInMempool

\* C12: after a tick whose fetch succeeded the pending map is exactly the
\* fetched snapshot, with or without departures and whatever the status
\* call answered.
C12_SnapshotReplaced ==
    (AtBoundary /\ ~Latest.fetchErr) => CurrentPending = Latest.snapshot /\ PendingFresh

\* C12 witness: a tick has ended in which every attempt of the status call
\* errored while other transactions were fetched.
C12_Witness ==
    /\ AtBoundary
    /\ ~Latest.fetchErr /\ Latest.snapshot # {}
    /\ Len(Latest.resolved) > 0 /\ Latest.errs = maxAttempts


\* C13: the departed keys of a tick are exactly the keys of the previous
\* pending map that are absent from the new snapshot and not in the history:
\* none on the first tick, all previous keys not in history on a pool drain.
C13_DepartedKeys ==
    [][(TickEnds /\ ~Latest'.fetchErr) =>
        /\ HashesOf(Latest'.resolved) = (PendingBefore \ Latest'.snapshot) \ HashesOf(HistoryBefore)
        /\ Len(Latest'.resolved) = Cardinality(HashesOf(Latest'.resolved))]_vars


\* The statuses of a transaction that has left the pool.
TerminalStatuses ==
    {StatusTypeSuccess, StatusTypeFailed, StatusTypeEvicted, StatusTypeUnknown}

\* C17: every entry added to the history has a terminal status, never the
\* in-mempool status, whatever the status call returned.
C17_TerminalStatus ==
    /\ \A i \in DOMAIN Latest.resolved : Latest.resolved[i].Status \in TerminalStatuses
    /\ \A i \in DOMAIN History : History[i].Status \in TerminalStatuses

\* C17 witness: the status call errored on every attempt, and the departed
\* transactions are in the history.
C17_Witness ==
    /\ Len(Latest.resolved) > 0 /\ Latest.errs > 0 /\ Len(Latest.results) = 0
    /\ \A i \in DOMAIN Latest.resolved : Latest.resolved[i] \in Range(History)


\* C19: a key is resolved once, at the first tick where it is absent from
\* the new snapshot, its record carries a time of that tick, and a record
\* of the history is never changed by a later tick.  (A key resolved in a
\* tick has no record in the history yet; the records of the history after
\* the tick are records it held before or records of this tick.)
C19_ResolvedOnce ==
    [][(TickEnds /\ ~Latest'.fetchErr) =>
        /\ \A k \in PendingBefore \ HashesOf(HistoryBefore) :
            k \notin Latest'.snapshot => k \in HashesOf(Latest'.resolved)
        /\ \A i \in DOMAIN Latest'.resolved :
            /\ Latest'.resolved[i].Hash \notin HashesOf(HistoryBefore)
            /\ "TimeCompleted" \in DOMAIN Latest'.resolved[i]
            /\ Latest'.resolved[i].TimeCompleted >= TimeBefore
            /\ Latest'.resolved[i].TimeCompleted <= now'
        /\ Range(History') \subseteq Range(HistoryBefore) \cup Range(Latest'.resolved)]_vars


\* C20: the history view handed to rendering shows the most recently
\* resolved first: no entry stands above one that was resolved later.  In
\* the Cosmos model the resolution time is TimeCompleted; an Ethereum
\* transaction carries none, and is resolved later than another when it was
\* resolved in the latest tick and the other was not.
C20_MostRecentFirst ==
    AtBoundary =>
        \A v \in HistoryViews : \A i, j \in DOMAIN v :
            i < j =>
                IF ctype = ChainTypeCosmos
                THEN v[i].TimeCompleted >= v[j].TimeCompleted
                ELSE ~(v[i] \notin Range(Latest.resolved) /\ v[j] \in Range(Latest.resolved))


\* C14: a Displays at any point relative to a pass reads a pending map and
\* a history that are both those of one tick boundary, never an
\* intermediate state of a pass: when it returns, the count of its header,
\* the lines of its mempool box and the completed list it copied are those
\* of the map and the list of one tick boundary in force while it read.
C14_NoTornRead ==
    [][seen'.n # seen.n =>
        /\ ~seen'.panicked
        /\ \E b \in seen'.bounds :
            /\ seen'.header = Cardinality(DOMAIN b[1])
            /\ seen'.transactions = MempoolBox(b[1])
            /\ seen'.completed = b[2]]_vars

\* C15: once the context is cancelled the loop eventually stops, and the
\* pass in flight at the cancellation is discarded: the pending map and the
\* history do not change after the cancellation.
C15_Cancellation ==
    /\ ctxDone ~> (pc = "stopped")
    /\ [][ctxDone => cTransactions' = cTransactions /\ cCompleted' = cCompleted]_vars

\* C16: the passes of one data source do not overlap: a pass begins only
\* when the goroutine waits for a tick, and a tick that arrives during a
\* pass changes nothing of that pass.
C16_NoOverlap ==
    /\ [][(pc' = "select" /\ pc # "select") => ~InPass /\ ticker]_vars
    /\ [][(ticker' /\ ~ticker) =>
            UNCHANGED <<pc, fetched, departed, retries, calls, cTransactions, cCompleted>>]_vars

\* C16 witness: a tick arrived while a pass was past its fetch.
C16_Witness == ticker /\ pc \in {"diff", "call", "append", "truncate", "swap"}

\* C18: in one pass the status call is attempted at most maxAttempts (5)
\* times, again only after an erroring attempt, and every pass ends, also
\* when every call errors.
C18_BoundedRetry ==
    /\ [](calls <= maxAttempts)
    /\ [][(calls' = calls + 1 /\ pc' = "call") => retries' = retries + 1]_vars
    /\ InPass ~> ~InPass

\* C18 witness: the last of maxAttempts erroring attempts has ended the loop.
C18_Witness == pc = "append" /\ calls = maxAttempts /\ retries = maxAttempts


\* The node answered "not found" for key i of the batch call under study.
NotFoundAt(i) ==
    IF input.fn = "BatchTxStatus"
    THEN input.items[i].hexOk /\ input.items[i].tx = TxNotFound
    ELSE ~input.items[i].Error /\ input.items[i].Result.isNil

\* The result the node holds for key i of the batch call under study.
NodeResultAt(i) ==
    IF input.fn = "BatchTxStatus" THEN input.items[i].result ELSE input.items[i].Result

\* C21: the result of a batch status call has the length of the input,
\* entry i is the result for key i, and a nil entry means that key i was
\* not found, which a failure of the call does not look like.
C21_PositionalResult ==
    (output.done /\ ~output.err
        /\ input.fn \in {"BatchTxStatus", "BatchTransactionReceipts"}) =>
        /\ Len(output.results) = Len(input.items)
        /\ \A i \in DOMAIN output.results :
            IF output.results[i].isNil THEN NotFoundAt(i)
            ELSE output.results[i] = NodeResultAt(i)


\* The call under study is a fetch whose query of the node succeeded.
FetchReturned ==
    /\ output.done
    /\ input.fn \in {"MempoolTxs", "decodeTransactions"}
    /\ ~input.err

\* The decodable raw transactions of the fetch under study, in their order.
DecodableItems == Pick(input.items, {i \in DOMAIN input.items : input.items[i].decodable})

\* C22: an undecodable item of a fetched pending set is skipped and does
\* not abort the fetch: the fetch returns, without error, exactly the
\* decodable items in their original order.
C22_DecodeFailureSkipped ==
    FetchReturned =>
        /\ ~output.err
        /\ Len(output.results) = Len(DecodableItems)
        /\ \A i \in DOMAIN output.results : output.results[i].Hash = DecodableItems[i].hash

\* C22 witness: MempoolTxs returned the transaction that follows an
\* undecodable one.
C22_Witness ==
    /\ FetchReturned /\ input.fn = "MempoolTxs"
    /\ \E i, j \in DOMAIN input.items :
        i < j /\ ~input.items[i].decodable /\ input.items[j].decodable
    /\ Len(output.results) > 0


\* The last n transactions received, the newest first.
NewestFirst(n) == [i \in 1..n |-> subReceived[Len(subReceived) + 1 - i]]

\* C23: after every received transaction (the goroutine is back at its
\* select, or has returned) the buffer of the subscription model holds at
\* most maxDisplay transactions, the most recently received ones with the
\* newest first (so a transaction received by a full buffer evicts the
\* oldest), and a buffered transaction is the one received, with no status.
C23_StreamingBuffer ==
    subPc # "trim" =>
        /\ Len(subTxs) <= maxDisplay
        /\ subTxs = NewestFirst(IF Len(subReceived) > maxDisplay
                                THEN maxDisplay ELSE Len(subReceived))
        /\ \A i \in DOMAIN subTxs : DOMAIN subTxs[i] = {"Hash"}

\* C23 witness: a full buffer has received another transaction and no
\* longer holds the oldest one.
C23_Witness ==
    /\ subPc = "select"
    /\ Len(subReceived) > maxDisplay
    /\ Len(subTxs) = maxDisplay
    /\ subReceived[1] \notin Range(subTxs)


\* C24: a tick of the model of one data source leaves the pending map and
\* the history of the model of every other data source unchanged, however
\* their ticks interleave: no statement of the Cosmos goroutine changes a
\* field of the Ethereum model, and no statement of a call of Update
\* changes a field of the Cosmos model.
C24_EnginesIndependent ==
    [][/\ (<<pc, departed, calls>>' # <<pc, departed, calls>>) =>
            UNCHANGED <<eTransactions, eCompleted>>
       /\ (update' # update) => UNCHANGED <<cTransactions, cCompleted>>]_vars

\* C24 witness: a call of Update stands before the replacement of its map
\* while a pass of the Cosmos goroutine stands between its fetch and the
\* replacement of its own.
C24_Witness ==
    /\ InPass /\ fetched # {}
    /\ update.pc = "swap" /\ EthCurrentTxHashes(update.txMap) # {}


\* C25: the completed list the Cosmos model stores never holds two entries
\* with the same hash, also when a key leaves the pool, is reported again
\* and leaves again.
C25_CosmosHistoryDistinct ==
    \A i, j \in DOMAIN cCompleted : cCompleted[i].Hash = cCompleted[j].Hash => i = j

\* C25 witness: at the end of a pass, a transaction of the pending map that
\* is in the completed list has left the pool again and is not among the
\* removed transactions.
C25_Witness ==
    /\ pc = "swap"
    /\ \E h \in DOMAIN cTransactions :
        /\ h \notin fetched
        /\ h \in HashesOf(cCompleted)
        /\ h \notin Range(departed)


\* The query of key i of the Cosmos batch call under study failed: the hash
\* is not hexadecimal, or the node did not answer with the transaction.
LookupFailedAt(i) == ~input.items[i].hexOk \/ input.items[i].tx # TxFound

\* C26: the batch status call of the Cosmos adapter never returns an error:
\* a per-hash query that fails (transport, undecodable hash, not found)
\* gives a nil entry at its position, so the retry branch of the model,
\* which is taken on an error of the call, is not taken with this adapter.
C26_CosmosBatchNeverErrors ==
    (output.done /\ input.fn = "BatchTxStatus") =>
        /\ ~output.err
        /\ Len(output.results) = Len(input.items)
        /\ \A i \in DOMAIN input.items : LookupFailedAt(i) => output.results[i].isNil

\* C26 witness: the call returned for a batch with a transport failure, an
\* undecodable hash or a transaction that was not found.
C26_Witness ==
    /\ output.done /\ input.fn = "BatchTxStatus"
    /\ \E i \in DOMAIN input.items : LookupFailedAt(i) /\ input.items[i].tx = TxTransport
    /\ \E i \in DOMAIN input.items : ~input.items[i].hexOk \/ input.items[i].tx = TxNotFound


\* The status and the height the Cosmos classification derives from one
\* result of a status call that succeeded.
DerivedStatus(result) ==
    IF result.isNil THEN StatusTypeUnknown
    ELSE IF result.isExec /\ result.Code = CodeTypeOK THEN StatusTypeSuccess
    ELSE StatusTypeFailed
DerivedHeight(result) ==
    IF DerivedStatus(result) = StatusTypeSuccess THEN result.Height ELSE 0

\* C27: in the Cosmos retry loop, when attempts error and a later attempt
\* within the bound succeeds, the final status of every departed key is
\* the one derived from the successful result: the Unknown written by a
\* failed attempt is overwritten.
C27_SuccessOverridesUnknown ==
    (ctype = ChainTypeCosmos /\ BatchAnswered /\ Latest.errs > 0) =>
        /\ Len(Latest.results) = Len(Latest.resolved)
        /\ \A i \in DOMAIN Latest.resolved :
            /\ Latest.resolved[i].Status = DerivedStatus(Latest.results[i])
            /\ Latest.resolved[i].HeightCompleted = DerivedHeight(Latest.results[i])

\* C27 witness: the status call errored four times and then answered, and a
\* departed transaction is Success.
C27_Witness ==
    /\ ctype = ChainTypeCosmos /\ BatchAnswered
    /\ Latest.errs = maxAttempts - 1
    /\ \E i \in DOMAIN Latest.resolved :
        /\ Latest.resolved[i].Status = StatusTypeSuccess
        /\ Latest.resolved[i] \in Range(cCompleted)


\* C28: in the Ethereum model a transaction that a tick finds in another
\* sub-pool than the one that held it (same hash, other pool name) is not
\* departed: it is not among the removed transactions, for which the
\* receipts are requested, the tick does not add it to the completed list,
\* and it stays pending.
C28_PoolMoveIsNotDeparture ==
    [][(ctype = ChainTypeEthereum /\ TickEnds /\ ~Latest'.fetchErr) =>
        \A h \in Latest'.moved :
            /\ h \notin Range(update'.removed)
            /\ h \notin HashesOf(Latest'.resolved)
            /\ Occurrences(eCompleted', h) <= Occurrences(update.completed, h)
            /\ \E pool \in DOMAIN eTransactions' :
                h \in HashesOf(eTransactions'[pool])]_vars

\* C28 witness: a transaction has moved between the pools in a tick in
\* which another transaction departed.
C28_Witness ==
    /\ ctype = ChainTypeEthereum /\ AtBoundary
    /\ Latest.moved # {}
    /\ Len(Latest.resolved) > 0

====
